---------------------------- MODULE Spec2Model ----------------------------
(***************************************************************************)
(* A model of mcp-firebase's write-safety subsystem: the audit ledger      *)
(* (src/audit.ts), the backup manager (src/backup.ts), the YAML dump/load  *)
(* codec (src/yaml-sync.ts) and the withAudit orchestrator (src/routes.ts).*)
(*                                                                         *)
(* Strings are sequences of atoms.  An atom is a substring that the model  *)
(* never looks inside: a letter, one of the punctuation characters the     *)
(* code matches on ("/", ".", "_", ":", "-"), an operation name, a         *)
(* reserved key, or the digits of a timestamp.                             *)
(***************************************************************************)
EXTENDS Naturals, Sequences, FiniteSets, TLC

VARIABLES
    db,        \* the remote tree (a DB node)
    dumps,     \* YamlSync.localDir: file name -> file text
    backups,   \* BackupManager.dir: file name -> file text
    ledger,    \* the audit log file: a sequence of lines
    now,       \* the wall clock, in milliseconds
    cfg,       \* how cli.ts / the library user wired audit and backup
    proc,      \* the requests in flight, one per slot
    started,   \* how many requests have been started
    finished,  \* how many withAudit invocations have returned or raised
    probe      \* input and outputs of the pure-function specifications

vars == <<db, dumps, backups, ledger, now, cfg, proc, started, finished, probe>>

-----------------------------------------------------------------------------
(* Bounds *)

MaxTime == 1        \* the clock stops advancing here
MaxReqs == 2        \* requests started in one behaviour
MaxPathLen == 3     \* atoms in a path of the filename specification
MaxAppends == 3     \* lines appended in the ledger specification
MaxFiles == 3       \* files in the snapshot directory specification

-----------------------------------------------------------------------------
(* Strings *)

S(a) == <<a>>

StartsWith(s, p) ==
    /\ Len(s) >= Len(p)
    /\ SubSeq(s, 1, Len(p)) = p

EndsWith(s, p) ==
    /\ Len(s) >= Len(p)
    /\ SubSeq(s, Len(s) - Len(p) + 1, Len(s)) = p

\* String.prototype.replace(/x/g, y) for a one-atom pattern
ReplaceAll(s, from, to) ==
    [i \in 1..Len(s) |-> IF s[i] = from THEN to ELSE s[i]]

RECURSIVE DropLeading(_, _)
DropLeading(s, a) ==
    IF s # <<>> /\ Head(s) = a THEN DropLeading(Tail(s), a) ELSE s

RECURSIVE DropTrailing(_, _)
DropTrailing(s, a) ==
    IF s # <<>> /\ s[Len(s)] = a
    THEN DropTrailing(SubSeq(s, 1, Len(s) - 1), a)
    ELSE s

\* s.replace(/^\/+|\/+$/g, '')
TrimSlashes(s) == DropTrailing(DropLeading(s, "/"), "/")

-----------------------------------------------------------------------------
(* Timestamps and correlation ids *)

\* Date.prototype.toISOString(): the digits of the instant, then the
\* punctuation the code later rewrites ("...T12:00:00.000Z")
IsoString(n) == <<ToString(n), ":", ".", "Z">>

Digits == {ToString(n) : n \in 0..MaxTime}

\* s.replace(/[:.]/g, '-')
DashForm(s) == ReplaceAll(ReplaceAll(s, ":", "-"), ".", "-")

MakeId(n) == DashForm(IsoString(n))

-----------------------------------------------------------------------------
(* Operation kinds *)

OPS == <<"put", "patch", "delete", "push", "load">>

AuditOps == {OPS[i] : i \in 1..Len(OPS)}

NoOp == ""            \* an absent (undefined) operation kind
NoStr == <<>>         \* an absent or empty string: both are falsy

-----------------------------------------------------------------------------
(* BackupManager: the file name of a snapshot and its decoding *)

BackupDir == "backups"

\* path.join(dir, filename)
Join(dir, filename) == <<dir, "/">> \o filename

\* (rtdbPath || 'root').replace(/^\/+|\/+$/g, '').replace(/\//g, '.') || 'root'
SafePath(rtdbPath) ==
    LET a == IF rtdbPath = NoStr THEN S("root") ELSE rtdbPath
        b == ReplaceAll(TrimSlashes(a), "/", ".")
    IN  IF b = NoStr THEN S("root") ELSE b

\* faulty variant: the operation prefix is left out of the file name
BackupFileNameNoOp(rtdbPath, op, auditId, t) ==
    LET ts == IF auditId # NoStr THEN auditId ELSE MakeId(t)
    IN  SafePath(rtdbPath) \o <<"_">> \o ts \o <<".yaml">>

BackupFileName(rtdbPath, op, auditId, t) ==
    LET opPrefix == IF op # NoOp THEN <<op, "_">> ELSE <<>>
        ts == IF auditId # NoStr THEN auditId ELSE MakeId(t)
    IN  opPrefix \o SafePath(rtdbPath) \o <<"_">> \o ts \o <<".yaml">>

\* filename.replace(/\.ya?ml$/, '')
StripYamlExt(filename) ==
    IF filename # <<>> /\ filename[Len(filename)] \in {".yaml", ".yml"}
    THEN SubSeq(filename, 1, Len(filename) - 1)
    ELSE filename

\* the first operation kind, in the order of OPS, that prefixes base
RECURSIVE DetectOp(_, _)
DetectOp(base, i) ==
    IF i > Len(OPS) THEN NoOp
    ELSE IF StartsWith(base, <<OPS[i], "_">>) THEN OPS[i]
    ELSE DetectOp(base, i + 1)

\* /(_(\d{4}-\d{2}-\d{2}T\d{2}-\d{2}-\d{2}-\d{3}Z))$/ matches rest
TsMatch(rest) ==
    /\ Len(rest) >= 5
    /\ rest[Len(rest) - 4] = "_"
    /\ rest[Len(rest) - 3] \in Digits
    /\ rest[Len(rest) - 2] = "-"
    /\ rest[Len(rest) - 1] = "-"
    /\ rest[Len(rest)] = "Z"

\* auditId.replace(/T(\d{2})-(\d{2})-(\d{2})-(\d{3})Z/, 'T$1:$2:$3.$4Z')
ColonForm(auditId) == <<auditId[1], ":", ".", "Z">>

NoMeta == [null |-> TRUE]

ParseMeta(filename) ==
    LET base == StripYamlExt(filename)
        op == DetectOp(base, 1)
        rest == IF op # NoOp THEN SubSeq(base, 3, Len(base)) ELSE base
    IN  IF ~TsMatch(rest) THEN NoMeta
        ELSE LET auditId == SubSeq(rest, Len(rest) - 3, Len(rest))
                 safePath == SubSeq(rest, 1, Len(rest) - 5)
                 slashed == ReplaceAll(safePath, ".", "/")
             IN  [file |-> filename,
                  op |-> op,
                  path |-> IF slashed = NoStr THEN S("/") ELSE slashed,
                  ts |-> ColonForm(auditId),
                  auditId |-> auditId]

-----------------------------------------------------------------------------
(* The remote tree (firebase-admin Realtime Database)                      *)
(*                                                                         *)
(* A DB node is absent, a scalar or an object with at least one child; an  *)
(* object that loses its last child is absent, as in RTDB.                 *)

DNull == [t |-> "n"]
DScalar(s) == [t |-> "s", v |-> s]
NoKids == [k \in {} |-> DNull]
DObj(kids) == IF DOMAIN kids = {} THEN DNull ELSE [t |-> "o", kids |-> kids]

KidsOf(node) == IF node.t = "o" THEN node.kids ELSE NoKids

\* the keys of a slash-delimited path; empty segments are dropped
RECURSIVE SplitPath(_, _, _)
SplitPath(s, cur, acc) ==
    IF s = <<>> THEN (IF cur = <<>> THEN acc ELSE Append(acc, cur))
    ELSE IF Head(s) = "/"
         THEN SplitPath(Tail(s), <<>>, IF cur = <<>> THEN acc ELSE Append(acc, cur))
         ELSE SplitPath(Tail(s), Append(cur, Head(s)), acc)

Segs(path) == SplitPath(path, <<>>, <<>>)

RECURSIVE NodeAt(_, _)
NodeAt(node, segs) ==
    IF segs = <<>> THEN node
    ELSE IF Head(segs) \in DOMAIN KidsOf(node)
         THEN NodeAt(node.kids[Head(segs)], Tail(segs))
         ELSE DNull

\* node with the subtree at segs replaced by v (v = DNull removes it)
RECURSIVE WithNodeAt(_, _, _)
WithNodeAt(node, segs, v) ==
    IF segs = <<>> THEN v
    ELSE LET k == Head(segs)
             kids == KidsOf(node)
             old == IF k \in DOMAIN kids THEN kids[k] ELSE DNull
             new == WithNodeAt(old, Tail(segs), v)
             others == [j \in (DOMAIN kids) \ {k} |-> kids[j]]
         IN  IF new = DNull THEN DObj(others) ELSE DObj((k :> new) @@ others)

-----------------------------------------------------------------------------
(* JavaScript values: null, a scalar, or an object whose keys keep their   *)
(* insertion order (a sequence of <<key, value>> pairs)                    *)

JNull == [t |-> "n"]
JScalar(s) == [t |-> "s", v |-> s]
JObj(ps) == [t |-> "o", ps |-> ps]

JKeys(ps) == [i \in 1..Len(ps) |-> ps[i][1]]

JHas(ps, k) == \E i \in 1..Len(ps) : ps[i][1] = k

JGet(ps, k) == ps[CHOOSE i \in 1..Len(ps) : ps[i][1] = k][2]

\* obj[k] = v: an existing key keeps its place
JPut(ps, k, v) ==
    IF JHas(ps, k)
    THEN [i \in 1..Len(ps) |-> IF ps[i][1] = k THEN <<k, v>> ELSE ps[i]]
    ELSE Append(ps, <<k, v>>)

\* { ...a, ...b }
RECURSIVE JSpread(_, _)
JSpread(a, b) ==
    IF b = <<>> THEN a ELSE JSpread(JPut(a, b[1][1], b[1][2]), Tail(b))

\* const { [k]: _, ...rest } = obj
JWithout(ps, k) == SelectSeq(ps, LAMBDA p : p[1] # k)

\* the order in which RTDB returns keys: integer keys first, then by
\* character code
AtomOrder ==
    <<"-", ".", ".yaml", ".yml", "/", ":", "Z", "_", "_path", "_value", "a",
      "b", "delete", "f", "load", "notes", "patch", "push", "put", "root",
      "u", "v">>

AtomRank(a) ==
    IF \E n \in 0..9 : ToString(n) = a
    THEN 10 + (CHOOSE n \in 0..9 : ToString(n) = a)
    ELSE 100 + (CHOOSE i \in 1..Len(AtomOrder) : AtomOrder[i] = a)

RECURSIVE StrLess(_, _)
StrLess(x, y) ==
    IF y = <<>> THEN FALSE
    ELSE IF x = <<>> THEN TRUE
    ELSE IF Head(x) = Head(y) THEN StrLess(Tail(x), Tail(y))
    ELSE AtomRank(Head(x)) < AtomRank(Head(y))

RECURSIVE SortKeys(_)
SortKeys(ks) ==
    IF ks = {} THEN <<>>
    ELSE LET m == CHOOSE k \in ks : \A j \in ks \ {k} : StrLess(k, j)
         IN  <<m>> \o SortKeys(ks \ {m})

\* DataSnapshot.val()
RECURSIVE ToJs(_)
ToJs(node) ==
    IF node.t = "n" THEN JNull
    ELSE IF node.t = "s" THEN JScalar(node.v)
    ELSE LET ks == SortKeys(DOMAIN node.kids)
         IN  JObj([i \in 1..Len(ks) |-> <<ks[i], ToJs(node.kids[ks[i]])>>])

\* what Reference.set(value) stores: null-valued children are not stored
RECURSIVE FromJs(_)
FromJs(js) ==
    IF js.t = "n" THEN DNull
    ELSE IF js.t = "s" THEN DScalar(js.v)
    ELSE LET ks == {js.ps[i][1] : i \in 1..Len(js.ps)}
             kept == {k \in ks : FromJs(JGet(js.ps, k)) # DNull}
         IN  DObj([k \in kept |-> FromJs(JGet(js.ps, k))])

\* FirebaseModule.get / set / update / delete
FbGet(tree, path) == ToJs(NodeAt(tree, Segs(path)))

FbSet(tree, path, js) == WithNodeAt(tree, Segs(path), FromJs(js))

RECURSIVE FbUpdatePairs(_, _, _)
FbUpdatePairs(tree, path, ps) ==
    IF ps = <<>> THEN tree
    ELSE FbUpdatePairs(FbSet(tree, path \o <<"/">> \o ps[1][1], ps[1][2]),
                       path, Tail(ps))

FbUpdate(tree, path, js) == FbUpdatePairs(tree, path, js.ps)

FbDelete(tree, path) == WithNodeAt(tree, Segs(path), DNull)

-----------------------------------------------------------------------------
(* The yaml package: a document is written as one line per key, nested     *)
(* mappings indented under their key                                       *)

RECURSIVE YLines(_, _)
YLines(ps, ind) ==
    IF ps = <<>> THEN <<>>
    ELSE LET k == ps[1][1]
             val == ps[1][2]
             here == IF val.t = "o"
                     THEN <<[ind |-> ind, key |-> k, kind |-> "o", v |-> NoStr]>>
                          \o YLines(val.ps, ind + 1)
                     ELSE IF val.t = "s"
                     THEN <<[ind |-> ind, key |-> k, kind |-> "s", v |-> val.v]>>
                     ELSE <<[ind |-> ind, key |-> k, kind |-> "n", v |-> NoStr]>>
         IN  here \o YLines(Tail(ps), ind)

\* stringify(output, { lineWidth: 0 })
YStringify(js) == YLines(js.ps, 0)

\* the index of the first line after the first that is not nested under it
NextSibling(lines, base) ==
    IF \E i \in 2..Len(lines) : lines[i].ind <= base
    THEN CHOOSE i \in 2..Len(lines) :
            /\ lines[i].ind <= base
            /\ \A j \in 2..(i - 1) : lines[j].ind > base
    ELSE Len(lines) + 1

RECURSIVE YBlock(_, _)
YBlock(lines, base) ==
    IF lines = <<>> THEN <<>>
    ELSE LET first == lines[1]
             n == NextSibling(lines, base)
             val == IF first.kind = "s" THEN JScalar(first.v)
                    ELSE IF first.kind = "n" THEN JNull
                    ELSE JObj(YBlock(SubSeq(lines, 2, n - 1), base + 1))
         IN  <<<<first.key, val>>>> \o YBlock(SubSeq(lines, n, Len(lines)), base)

\* parse(content)
YParse(text) == JObj(YBlock(text, 0))

-----------------------------------------------------------------------------
(* YamlSync: the synchronous parts of dump and load *)

PathKey == S("_path")
ValueKey == S("_value")

\* filename || rtdbPath.replace(/\//g, '_') + '.yaml'
DumpFileName(rtdbPath, filename) ==
    IF filename # NoStr THEN filename
    ELSE ReplaceAll(rtdbPath, "/", "_") \o <<".yaml">>

\* { _path: rtdbPath, ...(typeof data === 'object' ? data : { _value: data }) }
DumpOutput(rtdbPath, data) ==
    JObj(JSpread(<<<<PathKey, JScalar(rtdbPath)>>>>,
                 IF data.t = "o" THEN data.ps ELSE <<<<ValueKey, data>>>>))

\* doc._path, undefined when the key is absent
DocPath(doc) ==
    IF JHas(doc.ps, PathKey) /\ JGet(doc.ps, PathKey).t = "s"
    THEN JGet(doc.ps, PathKey).v
    ELSE NoStr

\* const { _path, ...data } = doc
DocData(doc) == JWithout(doc.ps, PathKey)

\* faulty variant: the whole document in one update, however many keys
LoadWritesAtOnce(path, data) ==
    <<[call |-> "update", path |-> path, data |-> JObj(data)]>>

\* the remote writes load issues, in order
LoadWrites(path, data) ==
    IF Len(data) <= 1
    THEN <<[call |-> "update", path |-> path, data |-> JObj(data)]>>
    ELSE [i \in 1..Len(data) |->
            [call |-> "set",
             path |-> path \o <<"/">> \o data[i][1],
             data |-> data[i][2]]]

\* faulty variant: the data is pushed under a fresh key of the target
ApplyWritePushed(tree, w) ==
    LET used == DOMAIN KidsOf(NodeAt(tree, Segs(w.path)))
        n == CHOOSE i \in 0..9 : <<"-", ToString(i)>> \notin used
    IN  FbSet(tree, w.path \o <<"/", "-", ToString(n)>>, w.data)

\* RtdbDAL.update / RtdbDAL.set on the remote tree
ApplyWrite(tree, w) ==
    IF w.call = "update" THEN FbUpdate(tree, w.path, w.data)
    ELSE FbSet(tree, w.path, w.data)

-----------------------------------------------------------------------------
(* AuditLog: entries, the lines of the log file, append and list *)

EntryFields ==
    <<"id", "ts", "op", "path", "status", "backupFile", "error", "durationMs">>

\* JSON.stringify(entry): the fields the entry has, in the order they were set
JsonStringify(entry) ==
    LET present == SelectSeq(EntryFields, LAMBDA f : f \in DOMAIN entry)
    IN  [i \in 1..Len(present) |-> <<present[i], entry[present[i]]>>]

\* JSON.parse(line)
JsonParse(line) ==
    [f \in {line[i][1] : i \in 1..Len(line)} |->
        line[CHOOSE i \in 1..Len(line) : line[i][1] = f][2]]

\* faulty variant: writeFileSync in place of appendFileSync
AuditOverwrite(file, entry) == <<JsonStringify(entry)>>

\* appendFileSync(this.logFile, JSON.stringify(entry) + '\n')
AuditAppend(file, entry) == Append(file, JsonStringify(entry))

Reverse(s) == [i \in 1..Len(s) |-> s[Len(s) + 1 - i]]

\* e.path === path || e.path.startsWith(path + '/')
PathMatches(path, filter) ==
    \/ path = filter
    \/ StartsWith(path, filter \o <<"/">>)

\* if (opts.limit): an absent limit and a limit of 0 are both falsy
LimitTruthy(opts) == "limit" \in DOMAIN opts /\ opts.limit # 0

\* faulty variant: entries.reverse() is left out
AuditListOldestFirst(file, opts) ==
    LET parsed == [i \in 1..Len(file) |-> JsonParse(file[i])]
        byOp == IF opts.op # NoOp
                THEN SelectSeq(parsed, LAMBDA e : e.op = opts.op)
                ELSE parsed
        byPath == IF opts.path # NoStr
                  THEN SelectSeq(byOp, LAMBDA e : PathMatches(e.path, opts.path))
                  ELSE byOp
    IN  IF LimitTruthy(opts)
        THEN SubSeq(byPath, 1, IF opts.limit < Len(byPath) THEN opts.limit
                               ELSE Len(byPath))
        ELSE byPath

\* opts.op, opts.path and opts.limit are applied when truthy; opts has a
\* limit field only when the caller gave one
AuditList(file, opts) ==
    LET parsed == [i \in 1..Len(file) |-> JsonParse(file[i])]
        byOp == IF opts.op # NoOp
                THEN SelectSeq(parsed, LAMBDA e : e.op = opts.op)
                ELSE parsed
        byPath == IF opts.path # NoStr
                  THEN SelectSeq(byOp, LAMBDA e : PathMatches(e.path, opts.path))
                  ELSE byOp
        rev == Reverse(byPath)
    IN  IF LimitTruthy(opts)
        THEN SubSeq(rev, 1, IF opts.limit < Len(rev) THEN opts.limit ELSE Len(rev))
        ELSE rev

-----------------------------------------------------------------------------
(* Failures: a thrown Error object with a message, or a thrown string *)

NoThrow == [k |-> "none", m |-> NoStr]
ErrorOf(msg) == [k |-> "Error", m |-> msg]
StringOf(str) == [k |-> "string", m |-> str]

\* what the wrapped action may reject with
Thrown == {ErrorOf(S("timeout")), ErrorOf(NoStr), StringOf(NoStr)}

\* e.message || String(e)
ErrText(e) ==
    IF e.k = "Error"
    THEN (IF e.m # NoStr THEN e.m ELSE S("Error"))
    ELSE e.m

-----------------------------------------------------------------------------
(* Configuration (cli.ts, AuditLogOptions, BackupManagerOptions) *)

DefaultOperations == {"put", "patch", "delete"}

\* audit / backup: "none" is a null collaborator, "off" one whose
\* options.enabled is false; codec says whether a YamlSync is attached
Config(audit, backup, operations, codec) ==
    [audit |-> audit, backup |-> backup, operations |-> operations,
     codec |-> codec]

Configs ==
    {Config("on", "on", DefaultOperations, TRUE),        \* cli.ts defaults
     Config("none", "on", {"delete", "push"}, TRUE),     \* audit.enabled: false
     Config("on", "none", DefaultOperations, TRUE),      \* backup.enabled: false
     Config("on", "on", DefaultOperations, FALSE),       \* new BackupManager({})
     Config("off", "off", DefaultOperations, TRUE)}      \* options.enabled = false

\* faulty variant: the allow-list is not consulted
BackupWantedAnyOp(c, op) == c.backup = "on"

\* backup && backup.options.enabled && backup.options.operations?.includes(op)
BackupWanted(c, op) ==
    /\ c.backup = "on"
    /\ op \in c.operations

\* audit && audit.options.enabled
AuditWanted(c) == c.audit = "on"

-----------------------------------------------------------------------------
(* Requests *)

Procs == {"r1", "r2"}

PathU == S("u")
PathUA == <<"u", "/", "a">>

One == JScalar(S("1"))
PatchBodies == {JObj(<<<<S("b"), One>>>>)}

TwoKeys == JObj(<<<<S("a"), One>>, <<S("b"), One>>>>)

InitTrees == {DNull, FbSet(DNull, PathU, TwoKeys)}

IdleProc ==
    [pc |-> "idle", kind |-> "none", op |-> NoOp, path |-> NoStr,
     body |-> JNull, id |-> NoStr, t0 |-> 0, fname |-> NoStr,
     backupFile |-> NoStr, todo |-> <<>>, target |-> NoStr,
     outcome |-> NoThrow, ret |-> "none", raised |-> NoThrow,
     retId |-> NoStr, post |-> DNull,
     \* the remote writes that completed, and the progress lines on stderr
     log |-> <<>>, progress |-> <<>>,
     \* the document load parsed
     doc |-> JNull,
     \* another request's write landed between this run's backup and its write
     crossed |-> FALSE,
     \* history of the request, for the properties below
     nBackup |-> 0, nAction |-> 0, nAppend |-> 0, bstate |-> "none",
     astate |-> "none", idx |-> 0, snap |-> DNull, pre |-> DNull,
     plan |-> <<>>,
     tStart |-> 0, tEnd |-> 0]

\* a slot takes a request when it has none; the second slot is used only
\* once the first has been
Free(p) ==
    /\ proc[p].pc \in {"idle", "done"}
    /\ p = "r2" => proc["r1"].pc # "idle"
    /\ started < MaxReqs

Init ==
    /\ db \in InitTrees
    /\ dumps = <<>>
    /\ backups = <<>>
    /\ ledger = <<>>
    /\ now = 0
    /\ cfg \in Configs
    /\ proc = [p \in Procs |-> IdleProc]
    /\ started = 0
    /\ finished = 0
    /\ probe = <<>>

Tick ==
    /\ now < MaxTime
    /\ now' = now + 1
    /\ UNCHANGED <<db, dumps, backups, ledger, cfg, proc, started, finished, probe>>

-----------------------------------------------------------------------------
(* YamlSync.dump and YamlSync.load against the remote tree *)

\* dump up to writeFileSync: the text written, unless nothing is at the path
YamlDump(tree, rtdbPath) ==
    LET data == FbGet(tree, rtdbPath)
    IN  IF data = JNull
        THEN [ok |-> FALSE, text |-> <<>>]
        ELSE [ok |-> TRUE, text |-> YStringify(DumpOutput(rtdbPath, data))]

\* load up to its first remote write: the writes to issue, or the failure
LoadPlan(dir, filename) ==
    IF filename \notin DOMAIN dir
    THEN [err |-> ErrorOf(S("File not found")), todo |-> <<>>, path |-> NoStr,
          doc |-> JNull]
    ELSE LET doc == YParse(dir[filename])
             path == DocPath(doc)
         IN  IF path = NoStr
             THEN [err |-> ErrorOf(S("No _path found")), todo |-> <<>>,
                   path |-> NoStr, doc |-> doc]
             ELSE [err |-> NoThrow, todo |-> LoadWrites(path, DocData(doc)),
                   path |-> path, doc |-> doc]

-----------------------------------------------------------------------------
(* withAudit (routes.ts) *)

\* the remote effect of the wrapped action of PUT / PATCH / DELETE / push
PushKey(tree, path) ==
    LET used == DOMAIN KidsOf(NodeAt(tree, Segs(path)))
        n == CHOOSE i \in 0..9 :
                /\ <<"-", ToString(i)>> \notin used
                /\ \A j \in 0..9 : j < i => <<"-", ToString(j)>> \in used
    IN  <<"-", ToString(n)>>

Effect(tree, op, path, body) ==
    IF op = "put" THEN FbSet(tree, path, body)
    ELSE IF op = "patch" THEN FbUpdate(tree, path, body)
    ELSE IF op = "delete" THEN FbDelete(tree, path)
    ELSE FbSet(tree, path \o <<"/">> \o PushKey(tree, path), body)

\* lines 35-47 up to the first await: the id, t0 and the backup decision
Begin(kind, op, path, body, wanted) ==
    [IdleProc EXCEPT
        !.pc = IF wanted THEN "backup" ELSE "start",
        !.kind = kind, !.op = op, !.path = path, !.body = body,
        !.id = MakeId(now), !.t0 = now,
        !.fname = IF wanted THEN BackupFileName(path, op, MakeId(now), now)
                  ELSE NoStr,
        !.nBackup = IF wanted THEN 1 ELSE 0,
        !.bstate = IF wanted THEN "inflight" ELSE "none"]

\* result = await fn(), up to the action's first await
StartAction(r) ==
    LET plan == LoadPlan(dumps, r.path)
        started0 == [r EXCEPT !.nAction = @ + 1, !.tStart = now]
    IN  IF r.kind = "load"
        THEN IF plan.err # NoThrow
             THEN [started0 EXCEPT !.pc = "finally", !.astate = "thrown",
                                   !.outcome = plan.err, !.tEnd = now]
             ELSE [started0 EXCEPT !.pc = "action", !.astate = "running",
                                   !.todo = plan.todo, !.plan = plan.todo,
                                   !.target = plan.path, !.doc = plan.doc]
        ELSE [started0 EXCEPT !.pc = "action", !.astate = "running"]

\* faulty variant: backup.backup is not awaited
ProceedUnawaited(r) == StartAction(r)

\* the request starts its action in the turn that skipped or settled the backup
Proceed(r) == IF r.pc = "start" THEN StartAction(r) ELSE r

\* PUT /db, PATCH /db, DELETE /db, POST /db/push
WriteCallOn(p, paths, bodies) ==
    \E op \in {"put", "patch", "delete", "push"}, path \in paths :
    \E body \in (IF op = "patch" THEN PatchBodies
                 ELSE IF op = "delete" THEN {JNull} ELSE bodies) :
        /\ Free(p)
        /\ proc' = [proc EXCEPT ![p] =
                Proceed(Begin("write", op, path, body, BackupWanted(cfg, op)))]
        /\ started' = started + 1
        /\ UNCHANGED <<db, dumps, backups, ledger, now, cfg, finished, probe>>

\* POST /files/load: withAudit('load', filename, audit, null, ...)
LoadCall(p) ==
    \E filename \in (DOMAIN dumps) \cup {<<"f", ".yaml">>} :
        /\ Free(p)
        /\ proc' = [proc EXCEPT ![p] =
                Proceed(Begin("load", "load", filename, JNull, FALSE))]
        /\ started' = started + 1
        /\ UNCHANGED <<db, dumps, backups, ledger, now, cfg, finished, probe>>

\* line 42: backup.backup resolved with the path of the file it wrote
BackupStored(r) ==
    StartAction([r EXCEPT !.backupFile = Join(BackupDir, r.fname),
                          !.bstate = "done"])

\* faulty variant: no try/catch around backup.backup
BackupRethrown(r) ==
    [r EXCEPT !.bstate = "failed", !.pc = "done", !.ret = "raised"]

\* lines 43-46: the failure is logged and the run goes on
BackupCaught(r) == StartAction([r EXCEPT !.bstate = "failed"])

\* lines 41-47: backup.backup(path, op, id) settles
BackupSettle(p) ==
    LET r == proc[p]
        dumped == YamlDump(db, r.path)
    IN  /\ r.pc = "backup"
        /\ r.kind = "write"
        /\ \E netOk \in BOOLEAN :
            IF cfg.codec /\ netOk /\ dumped.ok
            THEN /\ backups' = (r.fname :> dumped.text) @@ backups
                 /\ proc' = [proc EXCEPT ![p] = BackupStored(
                        [r EXCEPT !.snap = NodeAt(db, Segs(r.path))])]
            ELSE /\ backups' = backups
                 /\ proc' = [proc EXCEPT ![p] = BackupCaught(r)]
        /\ UNCHANGED <<db, dumps, ledger, now, cfg, started, finished, probe>>

\* faulty variant: a run is taken to be alone between its backup and its write
ExposedNever(r) == FALSE

\* lines 42-51: the backup has resolved and the run's own write has not
\* landed yet; withAudit holds no lock over these awaits
Exposed(r) == r.kind = "write" /\ r.bstate = "done" /\ r.pc = "action"

\* a write of request p lands: every other run that is between its backup
\* and its write, and whose subtree the write changes, has been overtaken
Overtake(ps, p, tree, tree2) ==
    [q \in Procs |->
        IF /\ q # p
           /\ Exposed(ps[q])
           /\ NodeAt(tree2, Segs(ps[q].path)) # NodeAt(tree, Segs(ps[q].path))
        THEN [ps[q] EXCEPT !.crossed = TRUE]
        ELSE ps[q]]

\* the remote write of PUT / PATCH / DELETE settles: applied, or rejected
\* with the tree untouched.  FirebaseModule.push does not await its write:
\* it returns the key whether or not the write lands.
ActionSettle(p) ==
    LET r == proc[p]
        pre == NodeAt(db, Segs(r.path))
    IN  /\ r.pc = "action"
        /\ r.kind = "write"
        /\ \/ /\ db' = Effect(db, r.op, r.path, r.body)
              /\ proc' = Overtake([proc EXCEPT ![p] =
                    [r EXCEPT !.pc = "finally", !.astate = "returned",
                              !.pre = pre, !.tEnd = now]], p, db, db')
           \/ /\ r.op = "push"
              /\ db' = db
              /\ proc' = [proc EXCEPT ![p] =
                    [r EXCEPT !.pc = "finally", !.astate = "returned",
                              !.pre = pre, !.tEnd = now]]
           \/ \E e \in Thrown :
              /\ r.op # "push"
              /\ db' = db
              /\ proc' = [proc EXCEPT ![p] =
                    [r EXCEPT !.pc = "finally", !.astate = "thrown",
                              !.outcome = e, !.pre = pre, !.tEnd = now]]
        /\ UNCHANGED <<dumps, backups, ledger, now, cfg, started, finished, probe>>

\* lines 44 and 51-53: the awaited write has completed; in the loop, done++
\* and the progress line `${done}/${keys.length}`
Wrote(r, w) ==
    [r EXCEPT !.log = Append(@, w),
              !.progress = IF w.call = "set"
                           THEN Append(@, <<Len(r.log) + 1, Len(r.plan)>>)
                           ELSE @]

\* faulty variant: the loop catches the rejection and goes on to the next key
LoadFailedSkips(r, e) ==
    [r EXCEPT !.pc = IF Len(r.todo) = 1 THEN "finally" ELSE "action",
              !.todo = Tail(@), !.astate = "thrown", !.outcome = e,
              !.tEnd = now]

\* lines 44 and 51: the awaited write rejects; nothing in load catches it, so
\* the rejection leaves the loop and load
LoadFailed(r, e) ==
    [r EXCEPT !.pc = "finally", !.astate = "thrown", !.outcome = e,
              !.tEnd = now]

\* one remote write of YamlSync.load settles: applied, or rejected, which
\* ends the load
LoadStep(p) ==
    LET r == proc[p]
    IN  /\ r.pc = "action"
        /\ r.kind \in {"load", "restore"}
        /\ r.todo # <<>>
        /\ \/ /\ db' = ApplyWrite(db, Head(r.todo))
              /\ proc' = Overtake([proc EXCEPT ![p] =
                    LET w == Wrote(r, Head(r.todo))
                    IN  IF Len(r.todo) = 1
                        THEN [w EXCEPT !.todo = <<>>, !.pc = "finally",
                                       !.astate = "returned", !.tEnd = now]
                        ELSE [w EXCEPT !.todo = Tail(@)]], p, db, db')
           \/ \E e \in Thrown :
              /\ db' = db
              /\ proc' = [proc EXCEPT ![p] = LoadFailed(r, e)]
        /\ UNCHANGED <<dumps, backups, ledger, now, cfg, started, finished, probe>>

\* faulty variant: the catch block does not set status
CaughtStatusUnset(outcome) == "ok"

\* lines 49-58: status and error as the catch block leaves them
CaughtStatus(outcome) == IF outcome = NoThrow THEN "ok" ELSE "error"

CaughtError(outcome) == IF outcome = NoThrow THEN NoStr ELSE ErrText(outcome)

Optional(field, str) == IF str # NoStr THEN (field :> str) ELSE <<>>

\* lines 61-70: the entry withAudit appends
WithAuditEntry(r, t) ==
    [id |-> r.id, ts |-> IsoString(t), op |-> r.op, path |-> r.path,
     status |-> CaughtStatus(r.outcome), durationMs |-> t - r.t0]
    @@ Optional("backupFile", r.backupFile)
    @@ Optional("error", CaughtError(r.outcome))

\* faulty variant: the entry is written after the await instead of in finally
LedgerAfterRunOnSuccess(file, c, r, t) ==
    IF AuditWanted(c) /\ r.outcome = NoThrow
    THEN AuditAppend(file, WithAuditEntry(r, t))
    ELSE file

\* lines 59-72: the finally block, whatever the outcome of the action
LedgerAfterRun(file, c, r, t) ==
    IF AuditWanted(c) THEN AuditAppend(file, WithAuditEntry(r, t)) ELSE file

\* what the caller of a settled request observes
Settled(r, file, file2) ==
    [r EXCEPT !.pc = "done",
              !.ret = IF r.outcome = NoThrow THEN "returned" ELSE "raised",
              !.raised = r.outcome,
              \* line 74: auditEntry: { id, backupFile }
              !.retId = IF r.outcome = NoThrow THEN r.id ELSE NoStr,
              !.nAppend = @ + (Len(file2) - Len(file)),
              !.idx = IF Len(file2) > Len(file) THEN Len(file2) ELSE 0]

\* lines 55-74: catch, finally, then withAudit returns or rethrows
Finish(p) ==
    LET r == proc[p]
    IN  /\ r.pc = "finally"
        /\ r.kind \in {"write", "load"}
        /\ ledger' = LedgerAfterRun(ledger, cfg, r, now)
        /\ proc' = [proc EXCEPT ![p] = Settled(r, ledger, ledger')]
        /\ finished' = finished + 1
        /\ UNCHANGED <<db, dumps, backups, now, cfg, started, probe>>

-----------------------------------------------------------------------------
(* The routes that do not go through withAudit *)

\* POST /backup/restore up to the first remote write of backup.restore
RestoreCall(p) ==
    \E filename \in (DOMAIN backups) \cup {<<"f", ".yaml">>} :
    LET plan == LoadPlan(backups, filename)
        r0 == [IdleProc EXCEPT !.kind = "restore", !.op = "load",
                               !.fname = filename, !.nAction = 1,
                               !.tStart = now]
    IN  /\ Free(p)
        /\ cfg.backup # "none"
        /\ proc' = [proc EXCEPT ![p] =
                IF ~cfg.codec
                THEN [r0 EXCEPT !.pc = "finally", !.astate = "thrown",
                                !.outcome = ErrorOf(S("yamlSync not initialized"))]
                ELSE IF plan.err # NoThrow
                THEN [r0 EXCEPT !.pc = "finally", !.astate = "thrown",
                                !.outcome = plan.err]
                ELSE [r0 EXCEPT !.pc = "action", !.astate = "running",
                                !.todo = plan.todo, !.plan = plan.todo,
                                   !.target = plan.path, !.doc = plan.doc]]
        /\ started' = started + 1
        /\ UNCHANGED <<db, dumps, backups, ledger, now, cfg, finished, probe>>

\* lines 214-222 of routes.ts: the entry the restore route appends
RestoreEntry(r, t) ==
    [id |-> MakeId(t), ts |-> IsoString(t), op |-> "load", path |-> r.target,
     status |-> "ok", backupFile |-> r.fname]

\* lines 213-223: the entry is appended only after restore has returned
LedgerAfterRestore(file, c, r, t) ==
    IF r.outcome = NoThrow /\ AuditWanted(c)
    THEN AuditAppend(file, RestoreEntry(r, t))
    ELSE file

\* lines 213-224: a failed restore propagates; a completed one is recorded
RestoreFinish(p) ==
    LET r == proc[p]
    IN  /\ r.pc = "finally"
        /\ r.kind = "restore"
        /\ ledger' = LedgerAfterRestore(ledger, cfg, r, now)
        /\ proc' = [proc EXCEPT ![p] =
                [Settled(r, ledger, ledger') EXCEPT !.post = db]]
        /\ UNCHANGED <<db, dumps, backups, now, cfg, started, finished, probe>>

\* POST /backup: backup.backup(path, undefined, undefined), path || ''
ManualBackupCallOn(p, paths) ==
    \E path \in paths :
        /\ Free(p)
        /\ cfg.backup # "none"
        /\ proc' = [proc EXCEPT ![p] =
                [IdleProc EXCEPT !.pc = "backup", !.kind = "backup",
                    !.path = path, !.nBackup = 1, !.bstate = "inflight",
                    !.fname = BackupFileName(path, NoOp, NoStr, now)]]
        /\ started' = started + 1
        /\ UNCHANGED <<db, dumps, backups, ledger, now, cfg, finished, probe>>

ManualBackupSettle(p) ==
    LET r == proc[p]
        dumped == YamlDump(db, r.path)
    IN  /\ r.pc = "backup"
        /\ r.kind = "backup"
        /\ \E netOk \in BOOLEAN :
            IF cfg.codec /\ netOk /\ dumped.ok
            THEN /\ backups' = (r.fname :> dumped.text) @@ backups
                 /\ proc' = [proc EXCEPT ![p] =
                        [r EXCEPT !.pc = "done", !.ret = "returned",
                                  !.bstate = "done",
                                  !.snap = NodeAt(db, Segs(r.path)),
                                  !.backupFile = Join(BackupDir, r.fname)]]
            ELSE /\ backups' = backups
                 /\ proc' = [proc EXCEPT ![p] =
                        [r EXCEPT !.pc = "done", !.ret = "raised",
                                  !.bstate = "failed"]]
        /\ UNCHANGED <<db, dumps, ledger, now, cfg, started, finished, probe>>

\* POST /files/dump: yamlSync.dump(path, body.filename); a request without
\* a path is refused before dump is called
DumpCallOn(p, paths, filenames) ==
    \E path \in paths \ {NoStr}, filename \in filenames :
        /\ Free(p)
        /\ proc' = [proc EXCEPT ![p] =
                [IdleProc EXCEPT !.pc = "backup", !.kind = "dump",
                    !.path = path, !.fname = DumpFileName(path, filename)]]
        /\ started' = started + 1
        /\ UNCHANGED <<db, dumps, backups, ledger, now, cfg, finished, probe>>

DumpSettle(p) ==
    LET r == proc[p]
        dumped == YamlDump(db, r.path)
    IN  /\ r.pc = "backup"
        /\ r.kind = "dump"
        /\ \E netOk \in BOOLEAN :
            IF netOk /\ dumped.ok
            THEN /\ dumps' = (r.fname :> dumped.text) @@ dumps
                 /\ proc' = [proc EXCEPT ![p] =
                        [r EXCEPT !.pc = "done", !.ret = "returned",
                                  !.snap = NodeAt(db, Segs(r.path))]]
            ELSE /\ dumps' = dumps
                 /\ proc' = [proc EXCEPT ![p] =
                        [r EXCEPT !.pc = "done", !.ret = "raised"]]
        /\ UNCHANGED <<db, backups, ledger, now, cfg, started, finished, probe>>

-----------------------------------------------------------------------------
(* The server: requests interleave at their awaits *)

WriteCall(p) == WriteCallOn(p, {PathU}, {One})

ManualBackupCall(p) == ManualBackupCallOn(p, {NoStr, PathU})

DumpCall(p) == DumpCallOn(p, {PathU}, {<<"f", ".yaml">>})

Next ==
    \/ Tick
    \/ \E p \in Procs : WriteCall(p)
    \/ \E p \in Procs : LoadCall(p)
    \/ \E p \in Procs : BackupSettle(p)
    \/ \E p \in Procs : ActionSettle(p)
    \/ \E p \in Procs : LoadStep(p)
    \/ \E p \in Procs : Finish(p)
    \/ \E p \in Procs : RestoreCall(p)
    \/ \E p \in Procs : RestoreFinish(p)
    \/ \E p \in Procs : ManualBackupCall(p)
    \/ \E p \in Procs : ManualBackupSettle(p)
    \/ \E p \in Procs : DumpCall(p)
    \/ \E p \in Procs : DumpSettle(p)

Spec == Init /\ [][Next]_vars

-----------------------------------------------------------------------------
(* Properties of withAudit *)

Runs == {p \in Procs : proc[p].kind \in {"write", "load"}}

HasEntry(p) == proc[p].idx \in 1..Len(ledger)

EntryOf(p) == JsonParse(ledger[proc[p].idx])

ByWithAudit(line) == \E i \in 1..Len(line) : line[i][1] = "durationMs"

\* C1: every withAudit invocation, whatever the outcome of its action and of
\* its backup, appends exactly one entry when an AuditLog is configured and
\* enabled and none otherwise; N completed invocations leave exactly N of
\* their entries in the ledger.
C1_OneEntryPerRun ==
    /\ \A p \in Runs :
        /\ proc[p].pc # "done" => proc[p].nAppend = 0
        /\ proc[p].pc = "done" =>
            proc[p].nAppend = (IF cfg.audit = "on" THEN 1 ELSE 0)
        /\ proc[p].nAppend = 1 =>
            /\ HasEntry(p)
            /\ EntryOf(p).id = proc[p].id
            /\ EntryOf(p).op = proc[p].op
            /\ EntryOf(p).path = proc[p].path
    /\ Len(SelectSeq(ledger, ByWithAudit))
            = (IF cfg.audit = "on" THEN finished ELSE 0)

C1_Witness ==
    /\ cfg.audit = "on"
    /\ finished = 2
    /\ \E p \in Runs :
        /\ proc[p].pc = "done"
        /\ proc[p].ret = "raised"
        /\ proc[p].bstate = "failed"
    /\ \E p \in Runs :
        /\ proc[p].pc = "done"
        /\ proc[p].ret = "returned"
        /\ proc[p].bstate = "none"

\* the message property of a thrown value; a thrown string has none
MessageOf(e) == IF e.k = "Error" THEN e.m ELSE NoStr

\* C2 as stated: a throwing action leaves an entry with status 'error' whose
\* error is the failure's message, and the same failure reaches the caller
\* after the entry is in the ledger; a returning action leaves status 'ok'.
C2_ErrorIsMessage ==
    \A p \in Runs :
        (proc[p].pc = "done" /\ cfg.audit = "on") =>
            /\ HasEntry(p)
            /\ proc[p].outcome # NoThrow =>
                /\ proc[p].ret = "raised"
                /\ proc[p].raised = proc[p].outcome
                /\ EntryOf(p).status = "error"
                /\ "error" \in DOMAIN EntryOf(p)
                /\ EntryOf(p).error = MessageOf(proc[p].outcome)
            /\ proc[p].outcome = NoThrow =>
                /\ proc[p].ret = "returned"
                /\ EntryOf(p).status = "ok"

\* C2, amended: the error field equals the failure's message whenever that
\* message is not empty; the rest as stated.
C2_ErrorIsNonEmptyMessage ==
    \A p \in Runs :
        (proc[p].pc = "done" /\ cfg.audit = "on") =>
            /\ HasEntry(p)
            /\ proc[p].outcome # NoThrow =>
                /\ proc[p].ret = "raised"
                /\ proc[p].raised = proc[p].outcome
                /\ EntryOf(p).status = "error"
                /\ MessageOf(proc[p].outcome) # NoStr =>
                    /\ "error" \in DOMAIN EntryOf(p)
                    /\ EntryOf(p).error = MessageOf(proc[p].outcome)
            /\ proc[p].outcome = NoThrow =>
                /\ proc[p].ret = "returned"
                /\ EntryOf(p).status = "ok"

C2_Witness ==
    \E p \in Runs :
        /\ proc[p].pc = "done"
        /\ cfg.audit = "on"
        /\ proc[p].ret = "raised"
        /\ proc[p].raised = ErrorOf(S("timeout"))
        /\ EntryOf(p).error = S("timeout")

\* C3: a failed pre-action backup is not propagated: the action still runs
\* exactly once, the caller gets the action's own outcome, and the run's
\* entry carries no backupFile.
C3_BackupFailureSwallowed ==
    \A p \in Runs :
        proc[p].bstate = "failed" =>
            /\ proc[p].pc \in {"action", "finally", "done"}
            /\ proc[p].nAction = 1
            /\ proc[p].backupFile = NoStr
            /\ proc[p].pc = "done" =>
                /\ proc[p].astate \in {"returned", "thrown"}
                /\ proc[p].ret = (IF proc[p].outcome = NoThrow
                                  THEN "returned" ELSE "raised")
                /\ proc[p].raised = proc[p].outcome
                /\ cfg.audit = "on" =>
                    /\ HasEntry(p)
                    /\ "backupFile" \notin DOMAIN EntryOf(p)

C3_Witness ==
    \E p \in Runs :
        /\ proc[p].bstate = "failed"
        /\ proc[p].pc = "done"
        /\ proc[p].ret = "returned"
        /\ cfg.audit = "on"
        /\ cfg.codec
        /\ "backupFile" \notin DOMAIN EntryOf(p)

\* C4: within one invocation the backup attempt has settled before the
\* action starts, and the action has settled before the entry is appended.
C4_StepsOrdered ==
    \A p \in Runs :
        /\ proc[p].bstate = "inflight" =>
            (proc[p].astate = "none" /\ proc[p].nAction = 0)
        /\ proc[p].astate \in {"none", "running"} => proc[p].nAppend = 0
        /\ proc[p].nAppend > 0 => proc[p].astate \in {"returned", "thrown"}
        /\ proc[p].pc = "done" =>
            /\ proc[p].bstate # "inflight"
            /\ proc[p].astate \in {"returned", "thrown"}

C4_Witness ==
    \E p \in Runs :
        /\ proc[p].bstate = "done"
        /\ proc[p].astate = "returned"
        /\ proc[p].nAppend = 1
        /\ proc[p].pc = "done"

\* C5: withAudit calls BackupManager.backup exactly once when the manager is
\* present, enabled and lists the operation kind, and never otherwise, in
\* which case the run creates no snapshot file.
C5_BackupOnlyIfListed ==
    \A p \in Runs :
        IF /\ proc[p].kind = "write"
           /\ cfg.backup = "on"
           /\ proc[p].op \in cfg.operations
        THEN proc[p].nBackup = 1
        ELSE /\ proc[p].nBackup = 0
             /\ proc[p].bstate = "none"
             /\ proc[p].fname = NoStr
             /\ proc[p].backupFile = NoStr

C5_Witness ==
    /\ cfg.backup = "on"
    /\ cfg.operations = DefaultOperations
    /\ \E p \in Runs :
        /\ proc[p].op = "push"
        /\ proc[p].pc = "done"
        /\ proc[p].nBackup = 0
    /\ \E p \in Runs :
        /\ proc[p].op = "put"
        /\ proc[p].pc = "done"
        /\ proc[p].nBackup = 1

\* C9: the ledger is append-only: every step leaves it unchanged or adds
\* exactly one line at its end, the earlier lines untouched.
C9_AppendOnly ==
    [][\/ ledger' = ledger
       \/ /\ Len(ledger') = Len(ledger) + 1
          /\ SubSeq(ledger', 1, Len(ledger)) = ledger]_vars

C9_Witness ==
    /\ Len(ledger) = 2
    /\ \E p \in Procs :
        /\ proc[p].kind = "restore"
        /\ proc[p].pc = "done"
        /\ proc[p].nAppend = 1
    /\ \E p \in Runs :
        /\ proc[p].pc = "done"
        /\ proc[p].ret = "raised"

-----------------------------------------------------------------------------
(* One client at a time: each request is sent after the previous one has   *)
(* been answered.  The trees, paths and bodies are richer than the         *)
(* server's.                                                               *)

Scalar1 == FbSet(DNull, PathU, One)
OneKey == FbSet(DNull, PathU, JObj(<<<<S("a"), One>>>>))

\* a record that has a field of its own named _path
OwnPathKey == FbSet(DNull, PathU, JObj(<<<<PathKey, JScalar(S("v"))>>>>))

SeqTrees == {DNull, Scalar1, OneKey, FbSet(DNull, PathU, TwoKeys), OwnPathKey}

SeqBodies == {One, JObj(<<<<S("v"), One>>>>)}

DefaultConfig == Config("on", "on", DefaultOperations, TRUE)

Quiet == \A q \in Procs : proc[q].pc \in {"idle", "done"}

InitSeq ==
    /\ db \in SeqTrees
    /\ dumps = <<>>
    /\ backups = <<>>
    /\ ledger = <<>>
    /\ now = 0
    /\ cfg = DefaultConfig
    /\ proc = [p \in Procs |-> IdleProc]
    /\ started = 0
    /\ finished = 0
    /\ probe = <<>>

SeqWriteCall(p) == Quiet /\ WriteCallOn(p, {PathU}, SeqBodies)

SeqRestoreCall(p) == Quiet /\ RestoreCall(p)

SeqDumpCall(p) == Quiet /\ DumpCallOn(p, {PathU}, {NoStr})

SeqLoadCall(p) == Quiet /\ LoadCall(p)

NextSeq ==
    \/ Tick
    \/ \E p \in Procs : SeqWriteCall(p)
    \/ \E p \in Procs : SeqRestoreCall(p)
    \/ \E p \in Procs : SeqDumpCall(p)
    \/ \E p \in Procs : SeqLoadCall(p)
    \/ \E p \in Procs : BackupSettle(p)
    \/ \E p \in Procs : ActionSettle(p)
    \/ \E p \in Procs : LoadStep(p)
    \/ \E p \in Procs : Finish(p)
    \/ \E p \in Procs : RestoreFinish(p)
    \/ \E p \in Procs : DumpSettle(p)

SpecSeq == InitSeq /\ [][NextSeq]_vars

\* C6 as stated: once a put, patch or delete run on a path has completed
\* with its backup stored, and restore of that run's snapshot file has
\* returned with no other request in between, the subtree at the path
\* equals what it was immediately before the run's action.
C6_RestoreRecoversPreState ==
    \A p \in Procs : \A q \in Procs \ {p} :
        ( /\ started = 2
          /\ proc[p].kind = "write"
          /\ proc[p].op \in {"put", "patch", "delete"}
          /\ proc[p].pc = "done"
          /\ proc[p].bstate = "done"
          /\ proc[q].kind = "restore"
          /\ proc[q].fname = proc[p].fname
          /\ proc[q].pc = "done"
          /\ proc[q].ret = "returned" )
        => NodeAt(db, Segs(proc[p].path)) = proc[p].pre

\* a key named k anywhere in a JavaScript value
RECURSIVE JsMentions(_, _)
JsMentions(js, k) ==
    /\ js.t = "o"
    /\ \E i \in 1..Len(js.ps) :
        \/ js.ps[i][1] = k
        \/ JsMentions(js.ps[i][2], k)

WriteMentions(w, k) ==
    \/ \E i \in 1..Len(Segs(w.path)) : Segs(w.path)[i] = k
    \/ JsMentions(w.data, k)

\* C7 as stated: dump(path) followed by load of the file it produced fails
\* only if a remote write is rejected; when it returns, the subtree at the
\* path equals the value dump fetched, and no write load issued contains or
\* targets a key named _path or _value.
C7_DumpLoadRoundTrip ==
    \A p \in Procs : \A q \in Procs \ {p} :
        ( /\ started = 2
          /\ proc[p].kind = "dump"
          /\ proc[p].pc = "done"
          /\ proc[p].ret = "returned"
          /\ proc[q].kind = "load"
          /\ proc[q].path = proc[p].fname
          /\ proc[q].pc = "done" )
        => /\ proc[q].outcome \in Thrown \cup {NoThrow}
           /\ \A i \in 1..Len(proc[q].plan) :
                /\ ~WriteMentions(proc[q].plan[i], PathKey)
                /\ ~WriteMentions(proc[q].plan[i], ValueKey)
           /\ proc[q].ret = "returned" =>
                NodeAt(db, Segs(proc[p].path)) = proc[p].snap

-----------------------------------------------------------------------------
(* AuditLog on its own: append and list on one log file *)

NoOpts == [op |-> NoOp, path |-> NoStr]

\* { ...opts, limit: n }
WithLimit(opts, n) == [op |-> opts.op, path |-> opts.path, limit |-> n]

ListOpts ==
    {NoOpts,
     [NoOpts EXCEPT !.op = "put"],
     [NoOpts EXCEPT !.path = PathU],
     WithLimit(NoOpts, 0),
     WithLimit(NoOpts, 1),
     WithLimit([op |-> "put", path |-> PathU], 2)}

LedgerEntries ==
    {[id |-> MakeId(t), ts |-> IsoString(t), op |-> o, path |-> pth,
      status |-> "ok", durationMs |-> 0] :
        t \in 0..MaxTime, o \in {"put", "delete"}, pth \in {PathU, PathUA}}

InitLedger ==
    /\ db = DNull
    /\ dumps = <<>>
    /\ backups = <<>>
    /\ ledger = <<>>
    /\ now = 0
    /\ cfg = DefaultConfig
    /\ proc = [p \in Procs |-> IdleProc]
    /\ started = 0
    /\ finished = 0
    /\ probe = [appended |-> <<>>, opts |-> NoOpts, listed |-> <<>>,
                stage |-> "appending"]

\* audit.append(entry)
LedgerAppend ==
    \E e \in LedgerEntries :
        /\ Len(ledger) < MaxAppends
        /\ ledger' = AuditAppend(ledger, e)
        /\ probe' = [probe EXCEPT !.appended = Append(@, e),
                                  !.stage = "appending"]
        /\ UNCHANGED <<db, dumps, backups, now, cfg, proc, started, finished>>

\* audit.list(opts)
LedgerList ==
    \E opts \in ListOpts :
        /\ probe' = [probe EXCEPT !.opts = opts,
                                  !.listed = AuditList(ledger, opts),
                                  !.stage = "listed"]
        /\ UNCHANGED <<db, dumps, backups, ledger, now, cfg, proc, started,
                       finished>>

NextLedger == LedgerAppend \/ LedgerList

SpecLedger == InitLedger /\ [][NextLedger]_vars

\* C8: list({}) returns exactly the appended entries, each once, the last
\* appended first.
C8_ListReversesAppends ==
    (probe.stage = "listed" /\ probe.opts = NoOpts) =>
        /\ Len(probe.listed) = Len(probe.appended)
        /\ \A i \in 1..Len(probe.listed) :
            probe.listed[i] = probe.appended[Len(probe.appended) + 1 - i]

C8_Witness ==
    /\ probe.stage = "listed"
    /\ probe.opts = NoOpts
    /\ Len(probe.appended) = 3
    /\ probe.appended[1] = probe.appended[2]
    /\ probe.appended[1] # probe.appended[3]
    /\ probe.listed[1] = probe.appended[3]

-----------------------------------------------------------------------------
(* BackupManager's file names on their own: backup builds one, parseMeta   *)
(* decodes it                                                              *)

CodecAtoms == {"u", "/", ".", "_", "put"}

CodecPaths == UNION {[1..n -> CodecAtoms] : n \in 0..MaxPathLen}

InitCodec ==
    /\ db = DNull
    /\ dumps = <<>>
    /\ backups = <<>>
    /\ ledger = <<>>
    /\ now = 0
    /\ cfg = DefaultConfig
    /\ proc = [p \in Procs |-> IdleProc]
    /\ started = 0
    /\ finished = 0
    /\ probe = [stage |-> "idle", path |-> NoStr, op |-> NoOp,
                file |-> NoStr, meta |-> NoMeta]

\* backup(rtdbPath, op, auditId) up to the file name
Encode ==
    \E path \in CodecPaths, op \in AuditOps \cup {NoOp}, withId \in BOOLEAN :
        /\ probe.stage = "idle"
        /\ probe' = [stage |-> "encoded", path |-> path, op |-> op,
                     file |-> BackupFileName(path, op,
                                IF withId THEN MakeId(now) ELSE NoStr, now),
                     meta |-> NoMeta]
        /\ UNCHANGED <<db, dumps, backups, ledger, now, cfg, proc, started,
                       finished>>

\* parseMeta(filename), as list() applies it to each file
Decode ==
    /\ probe.stage = "encoded"
    /\ probe' = [probe EXCEPT !.stage = "decoded",
                              !.meta = ParseMeta(probe.file)]
    /\ UNCHANGED <<db, dumps, backups, ledger, now, cfg, proc, started,
                   finished>>

NextCodec == Tick \/ Encode \/ Decode

SpecCodec == InitCodec /\ [][NextCodec]_vars

\* C10 as stated: for a path without '.', decoding the file name built for
\* it gives the path back, the empty path as '/', and the operation kind
\* that was given (none when none was).
C10_FilenameRoundTrip ==
    ( /\ probe.stage = "decoded"
      /\ \A i \in 1..Len(probe.path) : probe.path[i] # "." )
    => /\ probe.meta # NoMeta
       /\ probe.meta.path = (IF probe.path = NoStr THEN S("/") ELSE probe.path)
       /\ probe.meta.op = probe.op

-----------------------------------------------------------------------------
(* Correlation of ledger entries, return values and snapshot files *)

\* C11: the id a run returns is the id of the entry it appended, and an
\* entry's backupFile names a file of the snapshot directory whose name
\* decodes to the entry's id and operation kind.
C11_Correlated ==
    \A p \in Runs :
        (proc[p].pc = "done" /\ HasEntry(p)) =>
            /\ proc[p].ret = "returned" => proc[p].retId = EntryOf(p).id
            /\ "backupFile" \in DOMAIN EntryOf(p) =>
                \E f \in DOMAIN backups :
                    /\ EntryOf(p).backupFile = <<"backups", "/">> \o f
                    /\ ParseMeta(f) # NoMeta
                    /\ ParseMeta(f).auditId = EntryOf(p).id
                    /\ ParseMeta(f).op = EntryOf(p).op

C11_Witness ==
    \E p \in Runs :
        /\ proc[p].pc = "done"
        /\ HasEntry(p)
        /\ proc[p].ret = "returned"
        /\ proc[p].op = "delete"
        /\ "backupFile" \in DOMAIN EntryOf(p)
        /\ now = 1
        /\ proc[p].t0 = 0

-----------------------------------------------------------------------------
(* Files written by YamlSync.dump *)

\* the text dump writes for the subtree it fetched
DumpText(rtdbPath, node) == YStringify(DumpOutput(rtdbPath, ToJs(node)))

AutoNamed(p) ==
    /\ proc[p].kind = "dump"
    /\ proc[p].pc = "done"
    /\ proc[p].ret = "returned"
    /\ proc[p].fname = DumpFileName(proc[p].path, NoStr)

\* C12 as stated: two dump calls without an explicit filename write two
\* distinct files, and each file still holds what its call wrote.
C12_AutoNamedDumpsDistinct ==
    \A p \in Procs : \A q \in Procs \ {p} :
        (AutoNamed(p) /\ AutoNamed(q)) =>
            /\ proc[p].fname # proc[q].fname
            /\ dumps[proc[p].fname] = DumpText(proc[p].path, proc[p].snap)
            /\ dumps[proc[q].fname] = DumpText(proc[q].path, proc[q].snap)

\* C13 as stated: the document dump writes has _path equal to the path that
\* was dumped, whatever the fetched value, and load of it targets that path.
C13_DumpKeepsSourcePath ==
    /\ \A p \in Procs :
        (proc[p].kind = "dump" /\ proc[p].pc = "done" /\ proc[p].ret = "returned")
            => DocPath(YParse(dumps[proc[p].fname])) = proc[p].path
    /\ \A p \in Procs : \A q \in Procs \ {p} :
        ( /\ proc[p].kind = "dump"
          /\ proc[p].pc = "done"
          /\ proc[p].ret = "returned"
          /\ proc[q].kind = "load"
          /\ proc[q].path = proc[p].fname
          /\ proc[q].plan # <<>> )
        => proc[q].target = proc[p].path

-----------------------------------------------------------------------------
(* Restores of a snapshot that an earlier session left in the directory *)

OldSnapshot == BackupFileName(PathU, "put", MakeId(0), 0)

InitRestore ==
    /\ db \in SeqTrees
    /\ dumps = <<>>
    /\ \E src \in SeqTrees \ {DNull} :
        backups = (OldSnapshot :> DumpText(PathU, NodeAt(src, Segs(PathU))))
    /\ ledger = <<>>
    /\ now = 0
    /\ cfg = DefaultConfig
    /\ proc = [p \in Procs |-> IdleProc]
    /\ started = 0
    /\ finished = 0
    /\ probe = <<>>

NextRestore ==
    \/ \E p \in Procs : SeqRestoreCall(p)
    \/ \E p \in Procs : LoadStep(p)
    \/ \E p \in Procs : RestoreFinish(p)

SpecRestore == InitRestore /\ [][NextRestore]_vars

Restored(p, f) ==
    /\ proc[p].kind = "restore"
    /\ proc[p].fname = f
    /\ proc[p].pc = "done"
    /\ proc[p].ret = "returned"

\* C14: two restores of the same snapshot, one after the other with no other
\* write, leave the remote tree as the first one left it.
C14_RestoreIdempotent ==
    \A p \in Procs : \A q \in Procs \ {p} : \A f \in DOMAIN backups :
        (Restored(p, f) /\ Restored(q, f)) =>
            /\ proc[p].post = proc[q].post
            /\ db = proc[p].post

C14_Witness ==
    /\ Restored("r1", OldSnapshot)
    /\ Restored("r2", OldSnapshot)
    /\ Len(proc["r2"].plan) = 2
    /\ proc["r1"].post # DNull

-----------------------------------------------------------------------------
(* The remote writes of YamlSync.load *)

Loads == {p \in Procs : proc[p].kind \in {"load", "restore"} /\ proc[p].plan # <<>>}

\* the document a load or restore request read
DocOf(p) == proc[p].doc

\* the writes of p are those the document calls for, the per-key ones being
\* calls of `perKey`; the completed ones are a prefix of them, all of them
\* once load has returned, with one progress line i/n per completed per-key
\* write
LoadWritesAre(p, perKey) ==
    LET data == DocData(DocOf(p))
        path == DocPath(DocOf(p))
        n == Len(data)
        plan == proc[p].plan
        log == proc[p].log
    IN  /\ IF n > 1
           THEN /\ Len(plan) = n
                /\ \A i \in 1..n :
                    /\ plan[i].call = perKey
                    /\ plan[i].path = path \o <<"/">> \o data[i][1]
                    /\ plan[i].data = data[i][2]
                /\ proc[p].progress = [i \in 1..Len(log) |-> <<i, n>>]
           ELSE /\ Len(plan) = 1
                /\ plan[1].call = "update"
                /\ plan[1].path = path
                /\ plan[1].data = JObj(data)
                /\ proc[p].progress = <<>>
        /\ Len(log) <= Len(plan)
        /\ log = SubSeq(plan, 1, Len(log))
        /\ proc[p].todo = SubSeq(plan, Len(log) + 1, Len(plan))
           \/ proc[p].astate = "thrown"
        /\ proc[p].astate = "returned" => log = plan

\* C15 as stated: the per-key writes are merge-writes.
C15_ChunkedMergeWrites == \A p \in Loads : LoadWritesAre(p, "update")

\* C15, amended: the per-key writes are set calls (each replaces the value
\* at _path/key_i); the rest as stated.
C15_ChunkedSetWrites == \A p \in Loads : LoadWritesAre(p, "set")

C15_Witness ==
    \E p \in Loads :
        /\ proc[p].kind = "load"
        /\ proc[p].pc = "done"
        /\ proc[p].ret = "returned"
        /\ Len(proc[p].log) = 2
        /\ proc[p].progress = <<<<1, 2>>, <<2, 2>>>>

-----------------------------------------------------------------------------
(* BackupManager.list over a snapshot directory *)

\* faulty variant: filter.op is not applied
BackupListAnyOp(dir, filter) ==
    LET names == SortKeys(DOMAIN dir)
        files == SelectSeq(names, LAMBDA f : \/ EndsWith(f, <<".yaml">>)
                                             \/ EndsWith(f, <<".yml">>))
        parsed == [i \in 1..Len(files) |-> ParseMeta(files[i])]
        metas == SelectSeq(parsed, LAMBDA m : m # NoMeta)
        byPath == IF filter.path # NoStr
                  THEN SelectSeq(metas, LAMBDA m : PathMatches(m.path, filter.path))
                  ELSE metas
    IN  Reverse(byPath)

\* list(filter): readdirSync gives the names in filename order
BackupList(dir, filter) ==
    LET names == SortKeys(DOMAIN dir)
        files == SelectSeq(names, LAMBDA f : \/ EndsWith(f, <<".yaml">>)
                                             \/ EndsWith(f, <<".yml">>))
        parsed == [i \in 1..Len(files) |-> ParseMeta(files[i])]
        metas == SelectSeq(parsed, LAMBDA m : m # NoMeta)
        byOp == IF filter.op # NoOp
                THEN SelectSeq(metas, LAMBDA m : m.op = filter.op)
                ELSE metas
        byPath == IF filter.path # NoStr
                  THEN SelectSeq(byOp, LAMBDA m : PathMatches(m.path, filter.path))
                  ELSE byOp
    IN  Reverse(byPath)

NoFilter == [op |-> NoOp, path |-> NoStr]

StoreFilters ==
    {NoFilter,
     [NoFilter EXCEPT !.op = "put"],
     [NoFilter EXCEPT !.path = PathU],
     [op |-> "put", path |-> PathU],
     [op |-> "delete", path |-> PathUA]}

\* the whole database, and a top-level node that is named root
StorePaths == {PathU, PathUA, NoStr, S("root")}

\* files somebody dropped into the directory: no timestamp suffix, no
\* extension
ForeignFiles == {<<"notes", ".yaml">>, <<"u", "_", "0", "-", "-", "Z">>}

InitStore ==
    /\ db = FbSet(FbSet(DNull, PathU, TwoKeys), S("root"), One)
    /\ dumps = <<>>
    /\ backups = <<>>
    /\ ledger = <<>>
    /\ now = 0
    /\ cfg = DefaultConfig
    /\ proc = [p \in Procs |-> IdleProc]
    /\ started = 0
    /\ finished = 0
    /\ probe = [stage |-> "idle", filter |-> NoFilter, listed |-> <<>>]

\* backup(rtdbPath, op) run to completion
StoreBackup ==
    \E path \in StorePaths, op \in {"put", "delete", NoOp} :
        LET fname == BackupFileName(path, op, NoStr, now)
        IN  /\ Cardinality(DOMAIN backups \cup {fname}) <= MaxFiles
            /\ YamlDump(db, path).ok
            /\ backups' = (fname :> YamlDump(db, path).text) @@ backups
            /\ probe' = [probe EXCEPT !.stage = "idle"]
            /\ UNCHANGED <<db, dumps, ledger, now, cfg, proc, started, finished>>

StoreForeign ==
    \E f \in ForeignFiles :
        /\ Cardinality(DOMAIN backups \cup {f}) <= MaxFiles
        /\ backups' = (f :> <<>>) @@ backups
        /\ probe' = [probe EXCEPT !.stage = "idle"]
        /\ UNCHANGED <<db, dumps, ledger, now, cfg, proc, started, finished>>

\* GET /backup/list
StoreList ==
    \E filter \in StoreFilters :
        /\ probe' = [stage |-> "listed", filter |-> filter,
                     listed |-> BackupList(backups, filter)]
        /\ UNCHANGED <<db, dumps, backups, ledger, now, cfg, proc, started,
                       finished>>

StoreTick ==
    /\ Tick
    /\ probe.stage = "idle"

NextStore == StoreTick \/ StoreBackup \/ StoreForeign \/ StoreList

SpecStore == InitStore /\ [][NextStore]_vars

\* the file name follows the grammar and passes the filter
Listable(f, filter) ==
    /\ f[Len(f)] \in {".yaml", ".yml"}
    /\ ParseMeta(f) # NoMeta
    /\ filter.op # NoOp => ParseMeta(f).op = filter.op
    /\ filter.path # NoStr =>
        \/ ParseMeta(f).path = filter.path
        \/ StartsWith(ParseMeta(f).path, filter.path \o <<"/">>)

\* C16: list(filter) returns exactly one meta for each file whose name
\* decodes and passes the filter, that file's decoded meta, and nothing for
\* any other file.
C16_ListFiltersDecoded ==
    probe.stage = "listed" =>
        /\ \A f \in DOMAIN backups :
            Cardinality({i \in 1..Len(probe.listed) : probe.listed[i].file = f})
                = (IF Listable(f, probe.filter) THEN 1 ELSE 0)
        /\ \A i \in 1..Len(probe.listed) :
            /\ probe.listed[i].file \in DOMAIN backups
            /\ probe.listed[i] = ParseMeta(probe.listed[i].file)

C16_Witness ==
    /\ probe.stage = "listed"
    /\ probe.filter = [op |-> "put", path |-> PathU]
    /\ <<"notes", ".yaml">> \in DOMAIN backups
    /\ \E f \in DOMAIN backups :
        /\ ParseMeta(f) # NoMeta
        /\ ParseMeta(f).op = "delete"
    /\ Len(probe.listed) = 1
    /\ probe.listed[1].path = PathUA
    /\ probe.listed[1].op = "put"
    /\ probe.listed[1].ts = IsoString(0)

\* the instant a decoded timestamp stands for
TsInstant(ts) == CHOOSE n \in 0..MaxTime : ToString(n) = ts[1]

\* C17 as stated: of any two returned metas, the one with the later
\* timestamp comes first.
C17_ListNewestFirst ==
    probe.stage = "listed" =>
        \A i \in 1..Len(probe.listed) : \A j \in 1..Len(probe.listed) :
            i < j => TsInstant(probe.listed[i].ts) >= TsInstant(probe.listed[j].ts)

-----------------------------------------------------------------------------
(* AuditLog.list with filters and a limit *)

EntryMatches(e, opts) ==
    /\ opts.op # NoOp => e.op = opts.op
    /\ opts.path # NoStr =>
        \/ e.path = opts.path
        \/ StartsWith(e.path, opts.path \o <<"/">>)

\* C18 as stated: list(opts) returns the matching entries newest first,
\* cut to the first L of them when a limit L >= 0 is given.
C18_ListFilteredLimited ==
    probe.stage = "listed" =>
        LET matching == SelectSeq(probe.appended,
                                  LAMBDA e : EntryMatches(e, probe.opts))
            m == Len(matching)
            n == IF "limit" \in DOMAIN probe.opts /\ probe.opts.limit < m
                 THEN probe.opts.limit
                 ELSE m
        IN  /\ Len(probe.listed) = n
            /\ \A i \in 1..n : probe.listed[i] = matching[m + 1 - i]

-----------------------------------------------------------------------------
(* What withAudit records about time and failure *)

\* C19 as stated: durationMs is the time from the start of the wrapped
\* action to its end, as withAudit observes it when it writes the entry;
\* the time the backup took is not in it.
C19_DurationIsActionTime ==
    \A p \in Runs :
        (proc[p].pc = "done" /\ HasEntry(p)) =>
            EntryOf(p).durationMs
                = TsInstant(EntryOf(p).ts) - proc[p].tStart

\* C20 as stated: an entry written by withAudit has an error field exactly
\* when its status is 'error'.
C20_ErrorIffStatusError ==
    \A i \in 1..Len(ledger) :
        ByWithAudit(ledger[i]) =>
            (("error" \in DOMAIN JsonParse(ledger[i]))
                <=> (JsonParse(ledger[i]).status = "error"))

-----------------------------------------------------------------------------
(* Requests that interleave *)

-----------------------------------------------------------------------------
(* Attempts that fail *)

\* C22 as stated: every attempt of put, patch, delete, push, files/load and
\* backup/restore that has ended, failed or not, has left exactly one ledger
\* entry when the ledger is configured and enabled.
C22_EveryAttemptRecorded ==
    \A p \in Procs :
        ( /\ proc[p].kind \in {"write", "load", "restore"}
          /\ proc[p].pc = "done"
          /\ AuditWanted(cfg) )
        => proc[p].nAppend = 1

\* C23 as stated: a snapshot file written by a successful backup(path) of
\* POST /backup, the empty path included, can be restored: restore of that
\* file fails only if a remote write is rejected, and when it returns it
\* returns the path that was backed up.
C23_SnapshotRestorable ==
    \A p \in Procs : \A q \in Procs \ {p} :
        ( /\ started = 2
          /\ proc[p].kind = "backup"
          /\ proc[p].pc = "done"
          /\ proc[p].bstate = "done"
          /\ proc[q].kind = "restore"
          /\ proc[q].fname = proc[p].fname
          /\ proc[q].pc = "done" )
        => /\ proc[q].outcome \in Thrown \cup {NoThrow}
           /\ proc[q].ret = "returned" => proc[q].target = proc[p].path

\* C24: when the k-th per-key write of a load over n > 1 keys is rejected,
\* the load ends there with that failure: the tree is left as the first k-1
\* writes made it (no rollback), the writes for keys k..n stay unissued (no
\* retry of k, no attempt of k+1..n), and the caller is raised the failure.
C24_PartialFailure ==
    [][\A p \in Procs :
        LET r == proc[p]
            s == proc'[p]
            n == Len(r.plan)
            k == Len(r.log) + 1
            chunked == r.kind \in {"load", "restore"} /\ n > 1
        IN  /\ (chunked /\ r.pc = "action" /\ s.astate = "thrown") =>
                /\ s.outcome \in Thrown
                /\ s.pc = "finally"
                /\ s.nAction = 1
                /\ db' = db
                /\ s.log = SubSeq(r.plan, 1, k - 1)
                /\ s.todo = SubSeq(r.plan, k, n)
            /\ (chunked /\ r.pc = "finally" /\ r.astate = "thrown" /\ s # r) =>
                /\ s.pc = "done"
                /\ s.ret = "raised"
                /\ s.raised = r.outcome
                /\ s.log = r.log
                /\ s.todo = r.todo
                /\ db' = db
      ]_vars

\* the second of two per-key writes was rejected and the caller has been
\* raised the failure
C24_Witness ==
    \E p \in Procs :
        /\ proc[p].kind \in {"load", "restore"}
        /\ Len(proc[p].plan) = 2
        /\ Len(proc[p].log) = 1
        /\ proc[p].astate = "thrown"
        /\ proc[p].pc = "done"
        /\ proc[p].ret = "raised"
        /\ NodeAt(db, Segs(proc[p].log[1].path)) = FromJs(proc[p].log[1].data)

-----------------------------------------------------------------------------
(* Progress of withAudit *)

\* Every await of a request that has settled is resumed by the event loop,
\* and the remote database and the file system answer every call, with a
\* result or with a failure.
\* the default wiring over a database that has a record at u
InitLive ==
    /\ db = FbSet(DNull, PathU, TwoKeys)
    /\ dumps = <<>>
    /\ backups = <<>>
    /\ ledger = <<>>
    /\ now = 0
    /\ cfg = DefaultConfig
    /\ proc = [p \in Procs |-> IdleProc]
    /\ started = 0
    /\ finished = 0
    /\ probe = <<>>

\* the clock plays no part in progress: the requests arrive within one
\* millisecond
NextLive ==
    \/ \E p \in Procs : WriteCall(p)
    \/ \E p \in Procs : BackupSettle(p)
    \/ \E p \in Procs : ActionSettle(p)
    \/ \E p \in Procs : Finish(p)

SpecLive ==
    /\ InitLive
    /\ [][NextLive]_vars
    /\ \A p \in Procs :
        /\ WF_vars(BackupSettle(p))
        /\ WF_vars(ActionSettle(p))
        /\ WF_vars(Finish(p))

\* C26: a withAudit run whose backup call and wrapped action each return or
\* throw eventually appends its ledger entry (when the ledger is configured
\* and enabled) and is then answered, by a return or by the failure of its
\* action; and as long as the wrapped action has not returned or thrown,
\* the run has appended nothing.
C26_RunsComplete ==
    \A p \in Procs :
        /\ (proc[p].kind \in {"write", "load"}
                /\ proc[p].pc \in {"backup", "action", "finally"})
            ~> ( /\ proc[p].kind \in {"write", "load"}
                 /\ proc[p].pc = "done"
                 /\ proc[p].ret \in {"returned", "raised"}
                 /\ AuditWanted(cfg) =>
                        /\ HasEntry(p)
                        /\ EntryOf(p).id = proc[p].id )
        /\ []( (proc[p].kind \in {"write", "load"}
                    /\ proc[p].pc \in {"backup", "action"})
               => proc[p].nAppend = 0 )

\* a run whose action threw has appended its entry and raised the failure
C26_Witness ==
    \E p \in Runs :
        /\ proc[p].pc = "done"
        /\ proc[p].nBackup = 1
        /\ proc[p].astate = "thrown"
        /\ proc[p].ret = "raised"
        /\ HasEntry(p)
        /\ EntryOf(p).id = proc[p].id

-----------------------------------------------------------------------------
(* Snapshot files that collide *)

\* C25 as stated: a backup call rewrites an existing snapshot file only if
\* the backup that wrote it was for the same path (and had the same
\* correlation id and operation kind, which the file name carries); no
\* snapshot file is ever removed.
C25_OverwriteOnlySamePath ==
    [][\A f \in DOMAIN backups :
        /\ f \in DOMAIN backups'
        /\ (ParseMeta(f) # NoMeta /\ f[Len(f)] = ".yaml") =>
                DocPath(YParse(backups'[f])) = DocPath(YParse(backups[f]))
      ]_vars

=============================================================================
